---- MODULE Spec2Model ----
(***************************************************************************)
(* Verification model of the `currying` crate: the Curried wrapper        *)
(* (src/src/curried.rs), the Curry / RCurry binding traits                 *)
(* (src/src/curry.rs, src/src/rcurry.rs) and the three-segment argument    *)
(* concatenation (src/src/concat_args.rs).                                 *)
(*                                                                         *)
(* A chain of wrappers is a sequence of layers; layer 1 wraps the base     *)
(* callable and layer Len(chain) is the outermost wrapper.  Each layer     *)
(* keeps the fields of struct Curried: args_left, args_right and func,     *)
(* where func records how the wrapped callable is held: "F" (by value,     *)
(* curry_once), "&mut F" (curry_mut) or "&F" (curry).  Trait bounds of     *)
(* the impl blocks (where clauses) are the guards of the call actions.     *)
(***************************************************************************)
EXTENDS Integers, Sequences, FiniteSets, TLC

VARIABLES
    base,       \* the base callable f (a test fixture of src/src/lib.rs)
    baseAlive,  \* f has not been moved out / consumed
    chain,      \* the nesting of Curried wrappers built on f, innermost first
    binds,      \* the binding operations that built chain, in order (ghost)
    i,          \* the counter captured by the counting closure (lib.rs test_mut)
    ncalls,     \* number of calls the base callable has received
    ninvoked,   \* number of invocations of the outermost wrapper (ghost)
    last,       \* record of the most recent invocation of the outermost wrapper
    fut,        \* the deferred computation returned by an asynchronous invocation
    tuples,     \* input of the concatenation: <<left, mid, right>>
    merged,     \* output of the concatenation
    features,   \* cargo features selected for concat_args.rs
    overloads   \* middle-segment lengths for which impl_concat_args! generated impls

vars ==
    <<base, baseAlive, chain, binds, i, ncalls, ninvoked, last, fut,
      tuples, merged, features, overloads>>

currVars ==
    <<base, baseAlive, chain, binds, i, ncalls, ninvoked, last, fut>>
concatVars == <<tuples, merged, features, overloads>>

----------------------------------------------------------------------------
(* Bounds of the model *)

MaxCalls == 3     \* most calls the base callable receives in one behaviour
MaxSeg == 1       \* longest left / right segment given to the concatenation
MaxMid == 3       \* longest middle segment given to the concatenation

(* Program constants *)

U8Max == 255      \* u8 parameters of `const fn f(x: u8, y: u8, z: u8) -> u8`
I0 == 0           \* `let i0 = 0;` of test_mut

(* Argument values: small ones, and one large enough to overflow u8 sums *)
Vals == {1, 200}

Rank(D) == CASE D = "once" -> 1 [] D = "mut" -> 2 [] D = "fn" -> 3 [] OTHER -> 4

----------------------------------------------------------------------------
(* Base callables: the fixtures of the tests, as opaque capabilities.       *)
(*   level  : the strongest calling discipline the callable implements      *)
(*   copy   : the callable is Copy                                          *)
(*   params : for each parameter, whether its type is Copy                  *)
(* "u8sum" is `fn f(x: u8, y: u8, z: u8) -> u8 { x + y + z }`, "counter" is *)
(* the closure `|j| { i += j; i }`; "takes" stands for an Fn callable with  *)
(* a first parameter of a type that is not Copy, "consume" for a callable   *)
(* that is FnOnce only (it gives away a captured value).                    *)

Bases ==
    { [kind |-> "u8sum", level |-> "fn", copy |-> TRUE, arity |-> 3,
       params |-> <<TRUE, TRUE, TRUE>>],
      [kind |-> "counter", level |-> "mut", copy |-> FALSE, arity |-> 1,
       params |-> <<TRUE>>],
      [kind |-> "takes", level |-> "fn", copy |-> TRUE, arity |-> 2,
       params |-> <<FALSE, TRUE>>],
      [kind |-> "consume", level |-> "once", copy |-> FALSE, arity |-> 2,
       params |-> <<FALSE, TRUE>>] }

(* With feature "async": callables invoked through AsyncFn / AsyncFnMut *)
AsyncBases == {b \in Bases : b.kind \in {"u8sum", "counter"}}

Panic == [ok |-> FALSE, val |-> 0]
Ok(v) == [ok |-> TRUE, val |-> v]

(* x + y on u8, overflow checks on (the test profile): overflow panics *)
U8Add(x, y) ==
    IF ~x.ok THEN x
    ELSE IF x.val + y <= U8Max THEN Ok(x.val + y)
    ELSE Panic

(* The body of the base callable: result and new captured counter *)
BaseBody(b, args, ctr) ==
    CASE b.kind = "u8sum" ->
            [out |-> U8Add(U8Add(Ok(args[1]), args[2]), args[3]), i |-> ctr]
      [] b.kind = "counter" ->
            [out |-> Ok(ctr + args[1]), i |-> ctr + args[1]]
      [] OTHER ->
            [out |-> Ok(args[1] + args[2]), i |-> ctr]

----------------------------------------------------------------------------
(* struct Curried and its constructors *)

Curried_new(args_left, args_right, func) ==
    [args_left |-> args_left, args_right |-> args_right, func |-> func]

(* Faulty variant: the value lands in the right segment *)
Curried_curry_right(func, arg) == Curried_new(<<>>, <<arg>>, func)

Curried_curry(func, arg) == Curried_new(<<arg>>, <<>>, func)

(* Faulty variant: the value lands in the left segment *)
Curried_rcurry_left(func, arg) == Curried_new(<<arg>>, <<>>, func)

Curried_rcurry(func, arg) == Curried_new(<<>>, <<arg>>, func)

(* tupleops::concat_many: flattens a tuple of tuples, left to right *)
RECURSIVE concat_many(_)
concat_many(tpls) ==
    IF tpls = <<>> THEN <<>> ELSE Head(tpls) \o concat_many(Tail(tpls))

----------------------------------------------------------------------------
(* Types: which parameter of f a layer's bound value fills, and whether    *)
(* that parameter's type is Copy.                                          *)

LeftPos(w, k) == Cardinality({j \in 1..(k - 1) : w[j].args_left # <<>>}) + 1

RightPos(b, w, k) ==
    b.arity - Cardinality({j \in 1..(k - 1) : w[j].args_right # <<>>})

ParamCopy(b, p) == IF p \in 1..b.arity THEN b.params[p] ELSE TRUE

LXCopy(b, w, k) == w[k].args_left = <<>> \/ ParamCopy(b, LeftPos(w, k))

RXCopy(b, w, k) == w[k].args_right = <<>> \/ ParamCopy(b, RightPos(b, w, k))

(* The discipline a call with discipline D on a layer reaches its wrapped  *)
(* callable with: F is called as is, &F only through Fn, &mut F through    *)
(* FnMut (and is not Fn).                                                  *)
Through(func, D) ==
    CASE func = "F" -> D
      [] func = "&F" -> "fn"
      [] OTHER -> IF D = "fn" THEN "none" ELSE "mut"

(* Faulty variant: `LX: Copy` missing from the where clauses *)
WhereArgs_right_only(b, w, k, D) == D \in {"mut", "fn"} => RXCopy(b, w, k)

(* where clauses of `impl FnOnce / FnMut / Fn for Curried` *)
WhereArgs(b, w, k, D) ==
    D \in {"mut", "fn"} => (LXCopy(b, w, k) /\ RXCopy(b, w, k))

(* Layer k of w (0: the base callable) implements discipline D for n       *)
(* call-time arguments.                                                    *)
RECURSIVE Implements(_, _, _, _, _)
Implements(b, w, k, D, n) ==
    IF D = "none" THEN FALSE
    ELSE IF k = 0 THEN n = b.arity /\ Rank(D) <= Rank(b.level)
    ELSE /\ WhereArgs(b, w, k, D)
         /\ Implements(b, w, k - 1, Through(w[k].func, D),
                       n + Len(w[k].args_left) + Len(w[k].args_right))

(* #[derive(Clone, Copy)] on Curried: Copy iff all three fields are *)
RECURSIVE IsCopy(_, _, _)
IsCopy(b, w, k) ==
    IF k = 0 THEN b.copy
    ELSE /\ LXCopy(b, w, k) /\ RXCopy(b, w, k)
         /\ \/ w[k].func = "&F"
            \/ w[k].func = "F" /\ IsCopy(b, w, k - 1)

----------------------------------------------------------------------------
(* Invocation: call_once / call_mut / call of Curried forward              *)
(* concat_many((args_left, args, args_right)) to func and return what func *)
(* returns.  func_call is the call of layer k's callable: the base         *)
(* callable itself for k = 0, the wrapper below otherwise.                 *)

RECURSIVE func_call(_, _, _, _, _, _)
RECURSIVE Curried_call(_, _, _, _, _, _)

func_call(b, w, k, D, args, ctr) ==
    IF k = 0
    THEN LET r == BaseBody(b, args, ctr)
         IN [out |-> r.out, i |-> r.i, received |-> args, disc |-> D,
             forwards |-> 1]
    ELSE Curried_call(b, w, k, D, args, ctr)

(* Faulty variants of the call methods: the call-time arguments put first; *)
(* func called twice; a panic of func turned into a value.                 *)
Curried_call_mid_first(b, w, k, D, args, ctr) ==
    func_call(b, w, k - 1, Through(w[k].func, D),
              concat_many(<<args, w[k].args_left, w[k].args_right>>), ctr)

(* Faulty variant: the right-bound values put before the call-time ones *)
Curried_call_right_first(b, w, k, D, args, ctr) ==
    func_call(b, w, k - 1, Through(w[k].func, D),
              concat_many(<<w[k].args_left, w[k].args_right, args>>), ctr)

Curried_call_twice(b, w, k, D, args, ctr) ==
    LET all == concat_many(<<w[k].args_left, args, w[k].args_right>>)
        first == func_call(b, w, k - 1, Through(w[k].func, D), all, ctr)
        second == func_call(b, w, k - 1, Through(w[k].func, D), all, first.i)
    IN [second EXCEPT !.forwards = first.forwards + second.forwards]

Curried_call_catch(b, w, k, D, args, ctr) ==
    LET r == func_call(b, w, k - 1, Through(w[k].func, D),
                       concat_many(<<w[k].args_left, args, w[k].args_right>>),
                       ctr)
    IN IF r.out.ok THEN r ELSE [r EXCEPT !.out = Ok(0)]

Curried_call(b, w, k, D, args, ctr) ==
    func_call(b, w, k - 1, Through(w[k].func, D),
              concat_many(<<w[k].args_left, args, w[k].args_right>>), ctr)

(* Asynchronous entry points: async_call_once / async_call_mut /           *)
(* async_call return func's own future (type CallOnceFuture =              *)
(* F::CallOnceFuture).  entries counts the calls of the base callable's    *)
(* asynchronous entry point, wraps the futures put around its future.      *)

RECURSIVE func_async_call(_, _, _, _, _)
RECURSIVE Curried_async_call(_, _, _, _, _)

func_async_call(b, w, k, D, args) ==
    IF k = 0
    THEN [args |-> args, disc |-> D, entries |-> 1, wraps |-> 0]
    ELSE Curried_async_call(b, w, k, D, args)

(* Faulty variant: func's future wrapped in a future of the wrapper's own *)
Curried_async_call_wrapped(b, w, k, D, args) ==
    LET r == func_async_call(b, w, k - 1, Through(w[k].func, D),
                    concat_many(<<w[k].args_left, args, w[k].args_right>>))
    IN [r EXCEPT !.wraps = @ + 1]

Curried_async_call(b, w, k, D, args) ==
    func_async_call(b, w, k - 1, Through(w[k].func, D),
                    concat_many(<<w[k].args_left, args, w[k].args_right>>))

----------------------------------------------------------------------------
(* Ownership.  Layers 1..Consumed(b, w, k) survive when layer k is moved   *)
(* out of (consumed by call_once, or dropped): a callable held by value    *)
(* goes with its owner unless it is Copy.  -1 says that f is gone too.     *)

RECURSIVE Consumed(_, _, _)
Consumed(b, w, k) ==
    IF w[k].func # "F" THEN k - 1
    ELSE IF IsCopy(b, w, k - 1) THEN k - 1
    ELSE IF k = 1 THEN -1
    ELSE Consumed(b, w, k - 1)

(* Faulty variant: call_once borrowing self *)
Moves_never(b, w, D) == FALSE

(* call_once takes self by value: the wrapper is gone unless it is Copy;   *)
(* call_mut and call borrow it.                                            *)
Moves(b, w, D) == D = "once" /\ ~IsCopy(b, w, Len(w))

Remaining(b, w, D) ==
    IF Moves(b, w, D) THEN Consumed(b, w, Len(w)) ELSE Len(w)

Keep(s, n) == SubSeq(s, 1, n)

NoCall ==
    [kind |-> "none", wrapper |-> <<>>, binds |-> <<>>, mid |-> <<>>,
     disc |-> "none", received |-> <<>>, baseDisc |-> "none", out |-> Ok(0),
     forwards |-> 0, before |-> 0, nth |-> 0]

NoFut ==
    [state |-> "none", wrapper |-> <<>>, binds |-> <<>>, mid |-> <<>>,
     disc |-> "none", args |-> <<>>, baseDisc |-> "none", entries |-> 0,
     wraps |-> 0, nth |-> 0]

SeqsOf(S, n) == [1..n -> S]

Top == Len(chain)

----------------------------------------------------------------------------
(* Binding: trait Curry (curry.rs) and trait RCurry (rcurry.rs).            *)
(* curry_once takes self by value; the provided methods curry_mut and       *)
(* curry call curry_once on &mut self and on &self.                         *)

Curry_curry_once(self, arg) == Curried_curry(self, arg)

Curry_curry_mut(arg) == Curry_curry_once("&mut F", arg)

Curry_curry(arg) == Curry_curry_once("&F", arg)

RCurry_rcurry_once(self, arg) == Curried_rcurry(self, arg)

RCurry_rcurry_mut(arg) == RCurry_rcurry_once("&mut F", arg)

RCurry_rcurry(arg) == RCurry_rcurry_once("&F", arg)

Idle == fut.state # "pending"

(* A value is bound only while f still has a parameter for it (the bound   *)
(* `Self::Output: FnOnce<X>` of the pedantic methods; a wrapper holding     *)
(* more values than f has parameters implements none of the Fn traits).     *)
CanBind ==
    /\ Idle
    /\ Top < base.arity
    /\ Top = 0 => baseAlive

Bound(layer, op, arg) ==
    /\ chain' = Append(chain, layer)
    /\ binds' = Append(binds, [op |-> op, arg |-> arg])
    /\ last' = NoCall
    /\ fut' = NoFut
    /\ UNCHANGED <<base, baseAlive, i, ncalls, ninvoked>>
    /\ UNCHANGED concatVars

CurryOnce ==
    /\ CanBind
    /\ \E arg \in Vals : Bound(Curry_curry_once("F", arg), "curry_once", arg)

CurryMut ==
    /\ CanBind
    /\ \E arg \in Vals : Bound(Curry_curry_mut(arg), "curry_mut", arg)

Curry ==
    /\ CanBind
    /\ \E arg \in Vals : Bound(Curry_curry(arg), "curry", arg)

RCurryOnce ==
    /\ CanBind
    /\ \E arg \in Vals : Bound(RCurry_rcurry_once("F", arg), "rcurry_once", arg)

RCurryMut ==
    /\ CanBind
    /\ \E arg \in Vals : Bound(RCurry_rcurry_mut(arg), "rcurry_mut", arg)

RCurry ==
    /\ CanBind
    /\ \E arg \in Vals : Bound(RCurry_rcurry(arg), "rcurry", arg)

(* This invocation is the Nth in a row of the same outermost wrapper: the   *)
(* previous operation was an invocation that left this wrapper in place.    *)
Nth == IF last.kind # "none" /\ last.wrapper = chain THEN last.nth + 1 ELSE 1

(* The outermost wrapper can be called with discipline D: the impl of the  *)
(* matching Fn trait exists for the remaining parameters of f.             *)
CanInvoke(D) ==
    /\ Idle
    /\ Top >= 1
    /\ ninvoked < MaxCalls
    /\ Implements(base, chain, Top, D, base.arity - Top)

(* Synchronous invocation of the outermost wrapper with arguments mid *)
Invoked(D, mid) ==
    /\ LET r == Curried_call(base, chain, Top, D, mid, i)
       IN /\ i' = r.i
          /\ last' = [kind |-> "sync", wrapper |-> chain, binds |-> binds,
                      mid |-> mid, disc |-> D, received |-> r.received,
                      baseDisc |-> r.disc, out |-> r.out,
                      forwards |-> r.forwards, before |-> i, nth |-> Nth]
          /\ ncalls' = ncalls + r.forwards
    /\ ninvoked' = ninvoked + 1
    /\ chain' = Keep(chain, Remaining(base, chain, D))
    /\ binds' = Keep(binds, Remaining(base, chain, D))
    /\ baseAlive' = (baseAlive /\ Remaining(base, chain, D) >= 0)
    /\ fut' = NoFut
    /\ UNCHANGED base
    /\ UNCHANGED concatVars

CallOnce ==
    /\ CanInvoke("once")
    /\ \E mid \in SeqsOf(Vals, base.arity - Top) : Invoked("once", mid)

CallMut ==
    /\ CanInvoke("mut")
    /\ \E mid \in SeqsOf(Vals, base.arity - Top) : Invoked("mut", mid)

Call ==
    /\ CanInvoke("fn")
    /\ \E mid \in SeqsOf(Vals, base.arity - Top) : Invoked("fn", mid)

(* Asynchronous invocation: returns the wrapped callable's future *)
AsyncInvoked(D, mid) ==
    /\ LET r == Curried_async_call(base, chain, Top, D, mid)
       IN fut' = [state |-> "pending", wrapper |-> chain, binds |-> binds,
                  mid |-> mid, disc |-> D, args |-> r.args,
                  baseDisc |-> r.disc, entries |-> r.entries,
                  wraps |-> r.wraps, nth |-> Nth]
    /\ chain' = Keep(chain, Remaining(base, chain, D))
    /\ binds' = Keep(binds, Remaining(base, chain, D))
    /\ baseAlive' = (baseAlive /\ Remaining(base, chain, D) >= 0)
    /\ last' = NoCall
    /\ ninvoked' = ninvoked + 1
    /\ UNCHANGED <<base, i, ncalls>>
    /\ UNCHANGED concatVars

AsyncCallOnce ==
    /\ CanInvoke("once")
    /\ \E mid \in SeqsOf(Vals, base.arity - Top) : AsyncInvoked("once", mid)

AsyncCallMut ==
    /\ CanInvoke("mut")
    /\ \E mid \in SeqsOf(Vals, base.arity - Top) : AsyncInvoked("mut", mid)

AsyncCall ==
    /\ CanInvoke("fn")
    /\ \E mid \in SeqsOf(Vals, base.arity - Top) : AsyncInvoked("fn", mid)

(* Awaiting the future runs the body of the base callable *)
Await ==
    /\ fut.state = "pending"
    /\ LET r == BaseBody(base, fut.args, i)
       IN /\ i' = r.i
          /\ last' = [kind |-> "async", wrapper |-> fut.wrapper,
                      binds |-> fut.binds, mid |-> fut.mid, disc |-> fut.disc,
                      received |-> fut.args, baseDisc |-> fut.baseDisc,
                      out |-> r.out, forwards |-> fut.entries, before |-> i,
                      nth |-> fut.nth]
    /\ fut' = [fut EXCEPT !.state = "ready"]
    /\ ncalls' = ncalls + fut.entries
    /\ UNCHANGED <<base, baseAlive, chain, binds, ninvoked>>
    /\ UNCHANGED concatVars

(* Dropping the future without awaiting it: the body never runs *)
Cancel ==
    /\ fut.state = "pending"
    /\ fut' = NoFut
    /\ UNCHANGED <<base, baseAlive, chain, binds, i, ncalls, ninvoked, last>>
    /\ UNCHANGED concatVars

(* The outermost wrapper goes out of scope *)
Drop ==
    /\ Idle
    /\ Top >= 1
    /\ chain' = Keep(chain, Consumed(base, chain, Top))
    /\ binds' = Keep(binds, Consumed(base, chain, Top))
    /\ baseAlive' = (baseAlive /\ Consumed(base, chain, Top) >= 0)
    /\ last' = NoCall
    /\ fut' = NoFut
    /\ UNCHANGED <<base, i, ncalls, ninvoked>>
    /\ UNCHANGED concatVars

----------------------------------------------------------------------------
(* concat_args.rs: trait ConcatArgs.  The default impl calls               *)
(* tupleops::concat_many; impl_concat_args! generates specialised impls    *)
(* for the shapes ((L,), mid, (R,)), ((L,), mid, ()) and ((), mid, (R,)),   *)
(* one set per middle-segment length.                                      *)

Features == {"8", "16", "32", "dont_hurt_yourself_by_using_all_features"}

(* The arity features are cumulative ("32" brings "16", "16" brings "8"):  *)
(* the #[cfg]s read `"8" and not "16"`, `"16" and not "32"`, and take the   *)
(* absence of "8" for the absence of all three.                            *)
FeatureSets ==
    {fs \in SUBSET Features :
        /\ "32" \in fs => "16" \in fs
        /\ "16" \in fs => "8" \in fs}

(* The identifier lists of the three feature-gated invocations *)
Idents8 == <<"_3", "_4", "_5", "_6", "_7", "_8">>

Idents16 ==
    <<"_3", "_4", "_5", "_6", "_7", "_8", "_9", "_10", "_11", "_12", "_13",
      "_14", "_16">>

Idents32 ==
    <<"_3", "_4", "_5", "_6", "_7", "_8", "_9", "_10", "_11", "_12", "_13",
      "_14", "_16", "_17", "_18", "_19", "_20", "_21", "_22", "_23", "_24",
      "_25", "_26", "_27", "_28", "_29", "_30", "_31", "_32">>

(* One expansion of the macro: impls for a middle segment of all the       *)
(* identifiers given, then the macro again without the first identifier.   *)
RECURSIVE impl_concat_args(_)
impl_concat_args(ts) ==
    {Len(ts)} \cup (IF ts = <<>> THEN {} ELSE impl_concat_args(Tail(ts)))

(* The #[cfg] attributes of the four invocations *)
Generated(fs) ==
    LET all == "dont_hurt_yourself_by_using_all_features" \in fs
    IN (IF "8" \notin fs \/ all THEN impl_concat_args(<<>>) ELSE {})
       \cup (IF ~all /\ "8" \in fs /\ "16" \notin fs
             THEN impl_concat_args(Idents8) ELSE {})
       \cup (IF ~all /\ "16" \in fs /\ "32" \notin fs
             THEN impl_concat_args(Idents16) ELSE {})
       \cup (IF ~all /\ "32" \in fs THEN impl_concat_args(Idents32) ELSE {})

concat_args_default(t) == concat_many(t)

(* Faulty variant: l and r exchanged *)
concat_args_L_R_swapped(t) == <<t[3][1]>> \o t[2] \o <<t[1][1]>>

(* let ((l,), (..mid..), (r,)) = self; (l, ..mid.., r,) *)
concat_args_L_R(t) == <<t[1][1]>> \o t[2] \o <<t[3][1]>>

(* let ((l,), (..mid..), ()) = self; (l, ..mid..) *)
concat_args_L(t) == <<t[1][1]>> \o t[2]

(* let ((), (..mid..), (r,)) = self; (..mid.., r,) *)
concat_args_R(t) == t[2] \o <<t[3][1]>>

(* Dispatch of ConcatArgs::concat_args: the specialised impl when one was  *)
(* generated for the shape of t, the default impl otherwise.               *)
concat_args(fs, t) ==
    IF Len(t[2]) \notin Generated(fs) THEN concat_args_default(t)
    ELSE IF Len(t[1]) = 1 /\ Len(t[3]) = 1 THEN concat_args_L_R(t)
    ELSE IF Len(t[1]) = 1 /\ Len(t[3]) = 0 THEN concat_args_L(t)
    ELSE IF Len(t[1]) = 0 /\ Len(t[3]) = 1 THEN concat_args_R(t)
    ELSE concat_args_default(t)

SeqsUpTo(S, n) == UNION {SeqsOf(S, m) : m \in 0..n}

(* ConcatArgs::concat_args applied to the three segments *)
ConcatArgs ==
    /\ merged' = [by |-> "concat_args", val |-> concat_args(features, tuples)]
    /\ UNCHANGED <<tuples, features, overloads>>
    /\ UNCHANGED currVars

(* tupleops::concat_many applied to them, as Curried's call methods do *)
ConcatMany ==
    /\ merged' = [by |-> "concat_many", val |-> concat_many(tuples)]
    /\ UNCHANGED <<tuples, features, overloads>>
    /\ UNCHANGED currVars

(* Compilation of concat_args.rs under the selected features *)
Expand ==
    /\ overloads = {}
    /\ overloads' = Generated(features)
    /\ UNCHANGED <<tuples, merged, features>>
    /\ UNCHANGED currVars

ConcatIdle ==
    /\ tuples = <<<<>>, <<>>, <<>>>>
    /\ merged = [by |-> "none", val |-> <<>>]
    /\ features = {}
    /\ overloads = {}

CurryIdle ==
    /\ baseAlive = TRUE
    /\ chain = <<>>
    /\ binds = <<>>
    /\ i = I0
    /\ ncalls = 0
    /\ ninvoked = 0
    /\ last = NoCall
    /\ fut = NoFut

Init ==
    /\ base \in Bases
    /\ CurryIdle
    /\ ConcatIdle

Binds ==
    \/ CurryOnce \/ CurryMut \/ Curry
    \/ RCurryOnce \/ RCurryMut \/ RCurry

Next ==
    \/ Binds
    \/ CallOnce \/ CallMut \/ Call
    \/ Drop

Spec == Init /\ [][Next]_vars

(* The crate built with feature "async", wrapping asynchronous callables *)
InitAsync ==
    /\ base \in AsyncBases
    /\ CurryIdle
    /\ ConcatIdle

NextAsync ==
    \/ Binds
    \/ AsyncCallOnce \/ AsyncCallMut \/ AsyncCall
    \/ Await \/ Cancel \/ Drop

SpecAsync == InitAsync /\ [][NextAsync]_vars

(* The concatenation on its own, for every shape of the three segments *)
InitConcat ==
    /\ base \in {b \in Bases : b.kind = "u8sum"}
    /\ CurryIdle
    /\ tuples \in {<<l, m, r>> : l \in SeqsUpTo(Vals, MaxSeg),
                                m \in SeqsUpTo(Vals, MaxMid),
                                r \in SeqsUpTo(Vals, MaxSeg)}
    /\ merged = [by |-> "none", val |-> <<>>]
    /\ features \in FeatureSets
    /\ overloads = {}

NextConcat == ConcatArgs \/ ConcatMany \/ Expand

SpecConcat == InitConcat /\ [][NextConcat]_vars

----------------------------------------------------------------------------
(* What the binding operations performed so far say about the argument     *)
(* list f must receive (read off the ghost record of the operations, not   *)
(* off the wrappers' fields).                                              *)

LeftOps == {"curry_once", "curry_mut", "curry"}

RightOps == {"rcurry_once", "rcurry_mut", "rcurry"}

OnceOps == {"curry_once", "rcurry_once"}

ArgsOf(bs) == [j \in 1..Len(bs) |-> bs[j].arg]

Reverse(s) == [j \in 1..Len(s) |-> s[Len(s) + 1 - j]]

IsLeftOp(e) == e.op \in LeftOps

IsRightOp(e) == e.op \in RightOps

LeftBound(bs) == ArgsOf(SelectSeq(bs, IsLeftOp))

RightBound(bs) == ArgsOf(SelectSeq(bs, IsRightOp))

AllLeft(bs) == \A j \in 1..Len(bs) : bs[j].op \in LeftOps

AllRight(bs) == \A j \in 1..Len(bs) : bs[j].op \in RightOps

(* The parameter of f that the k-th binding operation fills *)
BoundPos(b, bs, k) ==
    IF bs[k].op \in LeftOps
    THEN Cardinality({j \in 1..(k - 1) : bs[j].op \in LeftOps}) + 1
    ELSE b.arity - Cardinality({j \in 1..(k - 1) : bs[j].op \in RightOps})

(* The value bound by the k-th operation is of a duplicable (Copy) type *)
BoundDup(b, bs, k) == b.params[BoundPos(b, bs, k)]

(* The discipline of the wrapped callable that matches discipline D of a   *)
(* wrapper built by op: the callable itself for the _once methods, a       *)
(* shared borrow (read-only calls only) for curry / rcurry, an exclusive   *)
(* borrow (mutating calls, never read-only) for curry_mut / rcurry_mut.    *)
MatchingDiscipline(op, D) ==
    IF op \in OnceOps THEN D
    ELSE IF op \in {"curry", "rcurry"} THEN "fn"
    ELSE IF D = "fn" THEN "none" ELSE "mut"

----------------------------------------------------------------------------
(* C1: after a chain of n >= 1 left bindings (curry_once / curry_mut /     *)
(* curry, in any mix), an invocation of the outermost wrapper with         *)
(* arguments rest makes f receive exactly the bound values in the order    *)
(* they were bound, followed by rest, and returns f of that list.          *)
C1_LeftBindingOrder ==
    (last.kind = "sync" /\ AllLeft(last.binds))
        => /\ last.received = ArgsOf(last.binds) \o last.mid
           /\ last.out = BaseBody(base, ArgsOf(last.binds) \o last.mid,
                                  last.before).out

(* f.curry(x).curry(y).curry(z)() with x # y, and f.curry(x)(y, z) *)
C1_Witness ==
    /\ last.kind = "sync"
    /\ AllLeft(last.binds)
    /\ Len(last.binds) = 3
    /\ last.binds[1].arg # last.binds[2].arg
    /\ last.binds[2].arg # last.binds[3].arg
    /\ last.out.ok

(* C2: after a chain of n >= 1 right bindings v1, ..., vn, an invocation   *)
(* with arguments prefix makes f receive prefix followed by vn, ..., v1.   *)
C2_RightBindingOrder ==
    (last.kind = "sync" /\ AllRight(last.binds))
        => /\ last.received = last.mid \o Reverse(ArgsOf(last.binds))
           /\ last.out = BaseBody(base,
                                  last.mid \o Reverse(ArgsOf(last.binds)),
                                  last.before).out

(* f.rcurry(z).rcurry(y)(x) with z # y *)
C2_Witness ==
    /\ last.kind = "sync"
    /\ AllRight(last.binds)
    /\ Len(last.binds) = 2
    /\ Len(last.mid) = 1
    /\ last.binds[1].arg # last.binds[2].arg
    /\ last.out.ok

(* C3: for every interleaving of left and right bindings, an invocation    *)
(* with arguments mid makes f receive (left-bound values in binding        *)
(* order) ++ mid ++ (right-bound values in reverse binding order), and     *)
(* returns f of that list.                                                 *)
C3_MixedBindingOrder ==
    last.kind = "sync"
        => LET expected == LeftBound(last.binds) \o last.mid
                           \o Reverse(RightBound(last.binds))
           IN /\ last.received = expected
              /\ last.out = BaseBody(base, expected, last.before).out

(* f.curry(X).rcurry(Z).curry(Y)() with pairwise different neighbours *)
C3_Witness ==
    /\ last.kind = "sync"
    /\ Len(last.binds) = 3
    /\ last.binds[1].op = "curry"
    /\ last.binds[2].op = "rcurry"
    /\ last.binds[3].op = "curry"
    /\ last.mid = <<>>
    /\ last.binds[1].arg # last.binds[3].arg
    /\ last.binds[3].arg # last.binds[2].arg

(* C4: the counting closure (counter starting at I0 = 0) bound with        *)
(* curry_mut(n) and then invoked k times through call_mut returns          *)
(* I0 + k * n on its k-th invocation: 1, 2, 3, ..., k for n = 1.           *)
C4_CounterSequence ==
    (/\ base.kind = "counter"
     /\ last.kind = "sync"
     /\ last.disc = "mut"
     /\ Len(last.binds) = 1
     /\ last.binds[1].op = "curry_mut"
     /\ ninvoked = last.nth)
        => last.out = Ok(I0 + last.nth * last.binds[1].arg)

(* the third invocation of f.curry_mut(1) returned 3 *)
C4_Witness ==
    /\ base.kind = "counter"
    /\ last.kind = "sync"
    /\ last.disc = "mut"
    /\ last.binds = <<[op |-> "curry_mut", arg |-> 1]>>
    /\ ninvoked = last.nth
    /\ last.nth = 3
    /\ last.out = Ok(3)

(* The wrapper invoked last was built by curry_once / rcurry_once *)
OnceBuilt(l) == l.binds[Len(l.binds)].op \in OnceOps

(* Its bound value is duplicable and the callable it wraps is repeatable   *)
(* (implements FnMut) or duplicable (Copy).                                *)
OnceRepeatable(l) ==
    LET k == Len(l.binds)
    IN /\ BoundDup(base, l.binds, k)
       /\ \/ Implements(base, l.wrapper, k - 1, "mut", base.arity - k + 1)
          \/ IsCopy(base, l.wrapper, k - 1)

(* C5 as claimed: a wrapper built by curry_once / rcurry_once is never     *)
(* invoked a second time, whatever it wraps and whatever value it holds.   *)
C5_OnceExactlyOnce ==
    (last.kind = "sync" /\ OnceBuilt(last)) => last.nth <= 1

(* C5 as amended: a wrapper built by curry_once / rcurry_once whose bound  *)
(* value is not duplicable, or whose wrapped callable is neither           *)
(* repeatable nor duplicable, is invoked at most once: its first           *)
(* invocation consumes it.                                                 *)
C5_OnceUnlessRepeatable ==
    (last.kind = "sync" /\ OnceBuilt(last) /\ ~OnceRepeatable(last))
        => /\ last.nth = 1
           /\ last.disc = "once"
           /\ Len(chain) < Len(last.wrapper)

(* a once-built wrapper holding a value that is not Copy, on a callable    *)
(* that is itself Fn, was invoked                                          *)
C5_Witness ==
    /\ last.kind = "sync"
    /\ OnceBuilt(last)
    /\ ~BoundDup(base, last.binds, Len(last.binds))
    /\ base.level = "fn"

(* C6: the outcome of invoking a wrapper, at any depth and with any        *)
(* discipline, is exactly the outcome of f on the argument list f          *)
(* received: the value unchanged, and a panic of f as that panic; the      *)
(* invocation ends in an error only if f did.                              *)
C6_OutcomePassThrough ==
    last.kind = "sync"
        => /\ last.out = BaseBody(base, last.received, last.before).out
           /\ i = BaseBody(base, last.received, last.before).i

(* f panicked (u8 overflow) under two layers and the invocation panicked *)
C6_Witness ==
    /\ last.kind = "sync"
    /\ Len(last.wrapper) >= 2
    /\ last.out = Panic

(* C7: the concatenation of left, mid and right holds, in order, all of    *)
(* left, then all of mid, then all of right: its length is the sum of the  *)
(* three lengths and every element sits at its place, also when segments   *)
(* are empty.                                                              *)
C7_Concat3 ==
    merged.by # "none"
        => LET l == tuples[1]
               m == tuples[2]
               r == tuples[3]
               out == merged.val
           IN /\ Len(out) = Len(l) + Len(m) + Len(r)
              /\ \A j \in 1..Len(l) : out[j] = l[j]
              /\ \A j \in 1..Len(m) : out[Len(l) + j] = m[j]
              /\ \A j \in 1..Len(r) : out[Len(l) + Len(m) + j] = r[j]

(* a generated impl concatenated (l,), a middle segment of two different   *)
(* values and (r,)                                                         *)
C7_Witness ==
    /\ merged.by = "concat_args"
    /\ Len(tuples[1]) = 1
    /\ Len(tuples[3]) = 1
    /\ Len(tuples[2]) = 2
    /\ Len(tuples[2]) \in Generated(features)
    /\ tuples[2][1] # tuples[2][2]
    /\ tuples[1][1] # tuples[3][1]
    /\ Len(merged.val) = 4

C9_AsyncAsSync ==
    /\ fut.state # "none"
        => /\ fut.args = LeftBound(fut.binds) \o fut.mid
                         \o Reverse(RightBound(fut.binds))
           /\ fut.entries = 1
           /\ fut.wraps = 0
    /\ last.kind = "async"
        => LET sync == Curried_call(base, last.wrapper, Len(last.wrapper),
                                    last.disc, last.mid, last.before)
           IN /\ last.out = sync.out
              /\ last.received = sync.received
              /\ last.baseDisc = sync.disc
              /\ i = sync.i

(* the future of a wrapper with a left and a right binding was awaited *)
C9_Witness ==
    /\ last.kind = "async"
    /\ fut.state = "ready"
    /\ Len(last.binds) >= 2
    /\ ~AllLeft(last.binds)
    /\ ~AllRight(last.binds)
    /\ Len(last.mid) >= 1

(* The invocation of impl_concat_args! that feature N selects *)
Selected(fs, N) ==
    /\ "dont_hurt_yourself_by_using_all_features" \notin fs
    /\ \/ N = 8 /\ "8" \in fs /\ "16" \notin fs
       \/ N = 16 /\ "16" \in fs /\ "32" \notin fs
       \/ N = 32 /\ "32" \in fs

(* C10: with ceiling feature N in {8, 16, 32} the macro generates impls    *)
(* for every middle-segment length 0..N-2, so that one left value, one     *)
(* right value and the middle segment reach N parameters.                  *)
C10_ArityCeiling ==
    overloads # {}
        => \A N \in {8, 16, 32} :
               Selected(features, N) => \A m \in 0..(N - 2) : m \in overloads

(* C11 as claimed: after repeated right-binding, the most recently         *)
(* right-bound value is the rightmost parameter of the argument list       *)
(* passed to f.                                                            *)
C11_MostRecentRightmost ==
    (last.kind = "sync" /\ AllRight(last.binds))
        => last.received[Len(last.received)]
               = last.binds[Len(last.binds)].arg

(* C11 as amended: after right bindings v1, ..., vn on f and an invocation *)
(* with prefix, the first right-bound value v1 is the rightmost parameter  *)
(* of the list passed to f and the most recently right-bound value vn      *)
(* comes immediately after prefix; every later binding is placed between   *)
(* prefix and the earlier right-bound values, so the j-th bound value      *)
(* stays j-th from the right end.                                          *)
C11_FirstBoundRightmost ==
    (last.kind = "sync" /\ AllRight(last.binds))
        => LET n == Len(last.binds)
               p == Len(last.mid)
           IN /\ Len(last.received) = p + n
              /\ last.received[p + n] = last.binds[1].arg
              /\ last.received[p + 1] = last.binds[n].arg
              /\ \A j \in 1..n :
                     last.received[p + n + 1 - j] = last.binds[j].arg
              /\ \A j \in 1..p : last.received[j] = last.mid[j]

(* f.rcurry(z).rcurry(y).rcurry(x)() with x # z: f received (x, y, z) *)
C11_Witness ==
    /\ last.kind = "sync"
    /\ AllRight(last.binds)
    /\ Len(last.binds) = 3
    /\ last.mid = <<>>
    /\ last.binds[1].arg # last.binds[3].arg
    /\ last.received[3] = last.binds[1].arg
    /\ last.received[1] = last.binds[3].arg

(* C12: binding operations never call f and every invocation of the        *)
(* outermost wrapper, whatever the depth of the chain under it, makes      *)
(* exactly one call reach f: after any sequence of bindings, invocations   *)
(* and drops, the number of calls f has received equals the number of      *)
(* invocations of the outermost wrapper.                                   *)
C12_OneForwardPerInvocation ==
    /\ ncalls = ninvoked
    /\ last.kind = "sync" => last.forwards = 1
    /\ last.kind = "none" => last.forwards = 0

(* three invocations, each after one more binding: the third one went      *)
(* through three layers and f has been called three times                  *)
C12_Witness ==
    /\ last.kind = "sync"
    /\ Len(last.wrapper) = 3
    /\ last.nth = 1
    /\ last.forwards = 1
    /\ ninvoked = 3
    /\ ncalls = 3

====
